---- MODULE Spec2Model ----
\* A model of goproxy's adapter (main.go): the access filter (ops.Filter),
\* the request logger (logger.ServeHTTP / responseLogger.WriteHeader) and the
\* file-backed version-list cache (ops.List on top of goJSON).
EXTENDS Integers, Sequences, FiniteSets, TLC

VARIABLES
    \* ---- ops (access filter) ----
    whiteList,   \* ops.whiteList: sequence of compiled rules
    blackList,   \* ops.blackList: sequence of compiled rules
    fcalled,     \* whether Filter has been called
    fpath,       \* argument of the last Filter call
    fres,        \* result of the last Filter call
    \* ---- logger ----
    lpc,         \* position of logger.ServeHTTP: "idle", "serving"
    rlCode,      \* responseLogger.code of the request being served
    hwrites,     \* status codes the inner handler has written, in order
    wcodes,      \* status codes forwarded to the underlying ResponseWriter
    logLines,    \* status codes logged so far, one entry per log line
    lastWrites,  \* the inner handler's writes of the last logged request
    reqs,        \* requests the logger has received
    hcalls,      \* times the logger has called the inner handler
    \* ---- ops.List and its environment ----
    now,         \* wall clock, in minutes
    fs,          \* the listproxy cache files, by escaped module path
    pc,          \* position of each List call
    arg,         \* mpath of each List call
    list,        \* the decoded "go list" result of each call
    data,        \* the bytes each call is about to write
    ret,         \* what each call returned
    inv,         \* toolchain invocations made by each call
    hit,         \* whether the call's Stat found a fresh cache file
    started,     \* time at which the call did its Stat
    wtime,       \* time at which the call wrote the cache file (-1: not yet)
    snap,        \* the cache file as the call's Stat saw it
    prev,        \* the last call that returned
    calls,       \* number of List calls started so far
    observing,   \* whether the history below is recorded in this behaviour
    itime,       \* time at which the call's toolchain invocation completed
    meta,        \* per cache file: whose result it holds, and whether an
                 \* open has truncated it and the write has not come yet
    robs,        \* what the call's os.Open found the cache file to be
    \* ---- ops.Latest, ops.Info, ops.GoMod, ops.Zip ----
    dl,          \* the last of these operations: its input and its outcome
    dlCalls,     \* number of these operations called so far
    dlInv,       \* number of "go mod download" invocations so far
    \* ---- the protocol front end ----
    lastRejected \* the last request the front end refused: [op, path]

filterVars == <<whiteList, blackList, fcalled, fpath, fres>>
loggerVars == <<lpc, rlCode, hwrites, wcodes, logLines, lastWrites,
                reqs, hcalls>>
listVars   == <<now, fs, pc, arg, list, data, ret, inv, hit,
                started, wtime, snap, prev, calls, observing, itime, meta, robs>>
dlVars     == <<dl, dlCalls, dlInv>>
frontVars  == <<lastRejected>>
vars       == <<whiteList, blackList, fcalled, fpath, fres,
                lpc, rlCode, hwrites, wcodes, logLines, lastWrites,
                reqs, hcalls,
                now, fs, pc, arg, list, data, ret, inv, hit,
                started, wtime, snap, prev, calls, observing, itime, meta, robs,
                dl, dlCalls, dlInv, lastRejected>>

-----------------------------------------------------------------------------
\* Bounds of the model.

\* longest allow list and longest deny list
MaxRules == 2
\* most status-code writes an inner handler makes in one request
MaxWrites == 2
\* most requests the logger serves
MaxRequests == 3
\* last minute of the wall clock
MaxTime == 5
\* most versions the toolchain resolves for one module
MaxVersions == 2
\* most List calls started
MaxCalls == 2

-----------------------------------------------------------------------------
\* Module paths, as sequences of characters.  "A" is an upper-case letter,
\* "!" is a character module.CheckPath rejects.

ModulePaths == { <<"a">>, <<"A">>, <<"!", "a">> }

\* A compiled rule "^" + w + "$" is represented by the set of module paths
\* the anchored expression matches.
Rules == SUBSET ModulePaths

RuleLists == UNION { [1..n -> Rules] : n \in 0..MaxRules }

MatchString(r, path) == path \in r

-----------------------------------------------------------------------------
\* ops.Filter

isWhitelisted(path) ==
    \E i \in 1..Len(whiteList) : MatchString(whiteList[i], path)

isBlacklisted(path) ==
    \E i \in 1..Len(blackList) : MatchString(blackList[i], path)

\* Filter as it would be with the allow-list check removed.
FilterNoAllow(path) ==
    IF Len(whiteList) > 0 /\ isBlacklisted(path) THEN FALSE
    ELSE TRUE

\* Filter as it would be if it rejected by default.
FilterFailClosed(path) ==
    IF Len(whiteList) > 0 /\ isBlacklisted(path) THEN FALSE
    ELSE IF Len(whiteList) > 0 /\ ~isWhitelisted(path) THEN FALSE
    ELSE Len(whiteList) > 0

Filter(path) ==
    IF Len(whiteList) > 0 /\ isBlacklisted(path) THEN FALSE
    ELSE IF Len(whiteList) > 0 /\ ~isWhitelisted(path) THEN FALSE
    ELSE TRUE

FilterInit ==
    /\ fcalled = FALSE
    /\ fpath = <<>>
    /\ fres = FALSE

FilterCall(path) ==
    /\ fcalled' = TRUE
    /\ fpath' = path
    /\ fres' = Filter(path)
    /\ UNCHANGED <<whiteList, blackList>>
    /\ UNCHANGED loggerVars
    /\ UNCHANGED listVars
    /\ UNCHANGED dlVars
    /\ UNCHANGED frontVars

-----------------------------------------------------------------------------
\* logger.ServeHTTP and responseLogger.WriteHeader

StatusCodes == {200, 404, 500}

LoggerInit ==
    /\ lpc = "idle"
    /\ rlCode = 0
    /\ hwrites = <<>>
    /\ wcodes = <<>>
    /\ logLines = <<>>
    /\ lastWrites = <<>>
    /\ reqs = 0
    /\ hcalls = 0

\* ServeHTTP as it would be with responseLogger.code left at its zero value.
ServeHTTPZeroCode ==
    /\ lpc = "idle"
    /\ Len(logLines) < MaxRequests
    /\ lpc' = "serving"
    /\ rlCode' = 0
    /\ hwrites' = <<>>
    /\ wcodes' = <<>>
    /\ reqs' = reqs + 1
    /\ hcalls' = hcalls + 1
    /\ UNCHANGED <<logLines, lastWrites>>
    /\ UNCHANGED filterVars
    /\ UNCHANGED listVars
    /\ UNCHANGED dlVars
    /\ UNCHANGED frontVars

\* start := time.Now(); rl := &responseLogger{code: 200, ResponseWriter: w};
\* the inner handler is entered.
ServeHTTP ==
    /\ lpc = "idle"
    /\ Len(logLines) < MaxRequests
    /\ lpc' = "serving"
    /\ rlCode' = 200
    /\ hwrites' = <<>>
    /\ wcodes' = <<>>
    /\ reqs' = reqs + 1
    /\ hcalls' = hcalls + 1
    /\ UNCHANGED <<logLines, lastWrites>>
    /\ UNCHANGED filterVars
    /\ UNCHANGED listVars
    /\ UNCHANGED dlVars
    /\ UNCHANGED frontVars

\* WriteHeader as it would be if it kept the code to itself.
WriteHeaderNoForward(code) ==
    /\ lpc = "serving"
    /\ Len(hwrites) < MaxWrites
    /\ rlCode' = code
    /\ wcodes' = wcodes
    /\ hwrites' = Append(hwrites, code)
    /\ UNCHANGED <<lpc, logLines, lastWrites, reqs, hcalls>>
    /\ UNCHANGED filterVars
    /\ UNCHANGED listVars
    /\ UNCHANGED dlVars
    /\ UNCHANGED frontVars

\* The inner handler calls rl.WriteHeader(code).
WriteHeader(code) ==
    /\ lpc = "serving"
    /\ Len(hwrites) < MaxWrites
    /\ rlCode' = code
    /\ wcodes' = Append(wcodes, code)
    /\ hwrites' = Append(hwrites, code)
    /\ UNCHANGED <<lpc, logLines, lastWrites, reqs, hcalls>>
    /\ UNCHANGED filterVars
    /\ UNCHANGED listVars
    /\ UNCHANGED dlVars
    /\ UNCHANGED frontVars

\* The inner handler returns; log.Printf("%.3fs %d %s\n", ..., rl.code, r.URL).
LogRequest ==
    /\ lpc = "serving"
    /\ lpc' = "idle"
    /\ logLines' = Append(logLines, rlCode)
    /\ lastWrites' = hwrites
    /\ UNCHANGED <<rlCode, hwrites, wcodes, reqs, hcalls>>
    /\ UNCHANGED filterVars
    /\ UNCHANGED listVars
    /\ UNCHANGED dlVars
    /\ UNCHANGED frontVars

-----------------------------------------------------------------------------
\* The environment of ops.List: clock, toolchain, cache files.

\* const listExpire = 5 * time.Minute, in minutes
listExpire == 5

\* Byte strings are sequences of characters.  The versions the toolchain can
\* resolve, oldest first.
VersionNames == << <<"v", "1">>, <<"v", "2">>, <<"v", "3">>, <<"v", "4">> >>

\* module.CheckPath, as far as the model's alphabet goes: a module path is
\* not empty and has no "!" in it.
CheckPath(path) ==
    /\ Len(path) > 0
    /\ \A i \in 1..Len(path) : path[i] # "!"

IsUpper(c) == c = "A"

ToLower(c) == IF c = "A" THEN "a" ELSE c

\* escapeString as it would be if it only folded the case.
RECURSIVE escapeStringFold(_)
escapeStringFold(s) ==
    IF Len(s) = 0 THEN <<>>
    ELSE <<ToLower(Head(s))>> \o escapeStringFold(Tail(s))

\* module.escapeString: an upper-case letter becomes "!" and its lower case.
RECURSIVE escapeString(_)
escapeString(s) ==
    IF Len(s) = 0 THEN <<>>
    ELSE (IF IsUpper(Head(s)) THEN <<"!", ToLower(Head(s))>> ELSE <<Head(s)>>)
         \o escapeString(Tail(s))

\* module.EscapePath: [ok, esc]
EscapePath(path) ==
    IF CheckPath(path) THEN [ok |-> TRUE, esc |-> escapeString(path)]
    ELSE [ok |-> FALSE, esc |-> <<>>]

ValidPaths == { m \in ModulePaths : CheckPath(m) }

\* file := filepath.Join(downloadRoot, escMod+"/@v/listproxy"): the cache
\* files are identified by the escaped module path.
CacheFiles == { escapeString(m) : m \in ValidPaths }

NoFile == [exists |-> FALSE, data |-> <<>>, mtime |-> 0]

\* strings.Join
RECURSIVE Join(_, _)
Join(elems, sep) ==
    IF Len(elems) = 0 THEN <<>>
    ELSE IF Len(elems) = 1 THEN elems[1]
    ELSE elems[1] \o sep \o Join(Tail(elems), sep)

\* Serialize without the special case for a lone newline.
SerializeKeepNewline(versions) ==
    Join(versions, <<"\n">>) \o <<"\n">>

\* data := []byte(strings.Join(list.Versions, "\n") + "\n");
\* if len(data) == 1 { data = nil }
Serialize(versions) ==
    LET d == Join(versions, <<"\n">>) \o <<"\n">>
    IN  IF Len(d) = 1 THEN <<>> ELSE d

Procs == {"c1", "c2"}

NoRet == [kind |-> "none", err |-> "", data |-> <<>>]

ErrRet(e) == [kind |-> "err", err |-> e, data |-> <<>>]

FileRet(d) == [kind |-> "file", err |-> "", data |-> d]

NoList == [Path |-> <<>>, Versions |-> <<>>]

NoCall == [path |-> <<>>, ret |-> NoRet, inv |-> 0, wtime |-> -1]

\* origin: completion time of the toolchain invocation whose result was
\* written last (-1: none); partial: truncated and not yet written.
NoMeta == [origin |-> -1, partial |-> FALSE]

\* What an os.Open finds: the file's origin, modification time, whether it is
\* truncated and not yet written, whether another call is about to write it.
NoObs == [origin |-> -1, mtime |-> -1, partial |-> FALSE, busy |-> FALSE]

ListInit ==
    /\ now = 0
    /\ fs = [f \in CacheFiles |-> NoFile]
    /\ pc = [p \in Procs |-> "idle"]
    /\ arg = [p \in Procs |-> <<>>]
    /\ list = [p \in Procs |-> NoList]
    /\ data = [p \in Procs |-> <<>>]
    /\ ret = [p \in Procs |-> NoRet]
    /\ inv = [p \in Procs |-> 0]
    /\ hit = [p \in Procs |-> FALSE]
    /\ started = [p \in Procs |-> 0]
    /\ wtime = [p \in Procs |-> -1]
    /\ snap = [p \in Procs |-> NoFile]
    /\ prev = NoCall
    /\ calls = 0
    /\ observing = FALSE
    /\ itime = [p \in Procs |-> -1]
    /\ meta = [f \in CacheFiles |-> NoMeta]
    /\ robs = [p \in Procs |-> NoObs]

\* The same, in a behaviour that records the history.
ListInitObs ==
    /\ now = 0
    /\ fs = [f \in CacheFiles |-> NoFile]
    /\ pc = [p \in Procs |-> "idle"]
    /\ arg = [p \in Procs |-> <<>>]
    /\ list = [p \in Procs |-> NoList]
    /\ data = [p \in Procs |-> <<>>]
    /\ ret = [p \in Procs |-> NoRet]
    /\ inv = [p \in Procs |-> 0]
    /\ hit = [p \in Procs |-> FALSE]
    /\ started = [p \in Procs |-> 0]
    /\ wtime = [p \in Procs |-> -1]
    /\ snap = [p \in Procs |-> NoFile]
    /\ prev = NoCall
    /\ calls = 0
    /\ observing = TRUE
    /\ itime = [p \in Procs |-> -1]
    /\ meta = [f \in CacheFiles |-> NoMeta]
    /\ robs = [p \in Procs |-> NoObs]

\* A minute passes.
Tick ==
    /\ now < MaxTime
    /\ now' = now + 1
    /\ UNCHANGED <<fs, pc, arg, list, data, ret, inv, hit,
                   started, wtime, snap, prev, calls>>
    /\ UNCHANGED <<observing, itime, meta, robs>>
    /\ UNCHANGED filterVars
    /\ UNCHANGED loggerVars
    /\ UNCHANGED dlVars
    /\ UNCHANGED frontVars

\* listExpire minutes pass at once.
Expire ==
    /\ now + listExpire <= MaxTime
    /\ now' = now + listExpire
    /\ UNCHANGED <<fs, pc, arg, list, data, ret, inv, hit,
                   started, wtime, snap, prev, calls>>
    /\ UNCHANGED <<observing, itime, meta, robs>>
    /\ UNCHANGED filterVars
    /\ UNCHANGED loggerVars
    /\ UNCHANGED dlVars
    /\ UNCHANGED frontVars

-----------------------------------------------------------------------------
\* ops.List, one action per step of a call p.

\* The freshness test with the boundary age counted as fresh.
FreshInclusive(f) == f.exists /\ now - f.mtime <= listExpire

\* The freshness test with the comparison turned around.
FreshInverted(f) == f.exists /\ now - f.mtime > listExpire

\* info, err := os.Stat(file);
\* err == nil && time.Since(info.ModTime()) < listExpire
Fresh(f) == f.exists /\ now - f.mtime < listExpire

\* The call starts: EscapePath, then Stat and the freshness test.
Stat(p, mpath) ==
    /\ pc[p] = "idle"
    /\ calls < MaxCalls
    /\ calls' = calls + 1
    /\ arg' = [arg EXCEPT ![p] = mpath]
    /\ started' = [started EXCEPT ![p] = now]
    /\ inv' = [inv EXCEPT ![p] = 0]
    /\ wtime' = [wtime EXCEPT ![p] = -1]
    /\ list' = [list EXCEPT ![p] = NoList]
    /\ data' = [data EXCEPT ![p] = <<>>]
    /\ LET e == EscapePath(mpath)
       IN  IF ~e.ok
           THEN /\ pc' = [pc EXCEPT ![p] = "done"]
                /\ ret' = [ret EXCEPT ![p] = ErrRet("escape")]
                /\ hit' = [hit EXCEPT ![p] = FALSE]
                /\ snap' = [snap EXCEPT ![p] = NoFile]
           ELSE /\ snap' = [snap EXCEPT ![p] = fs[e.esc]]
                /\ ret' = [ret EXCEPT ![p] = NoRet]
                /\ hit' = [hit EXCEPT ![p] = Fresh(fs[e.esc])]
                /\ pc' = [pc EXCEPT ![p] =
                            IF Fresh(fs[e.esc]) THEN "openfast" ELSE "gojson"]
    /\ UNCHANGED <<now, fs, prev>>
    /\ UNCHANGED <<observing, itime, meta, robs>>
    /\ UNCHANGED filterVars
    /\ UNCHANGED loggerVars
    /\ UNCHANGED dlVars
    /\ UNCHANGED frontVars

\* What call p's os.Open finds.
Observe(p) ==
    LET f == EscapePath(arg[p]).esc
    IN  [origin  |-> meta[f].origin,
         mtime   |-> fs[f].mtime,
         partial |-> meta[f].partial,
         busy    |-> \E q \in Procs \ {p} :
                       pc[q] = "write" /\ EscapePath(arg[q]).esc = f]

\* return os.Open(file) on the fast path.
OpenFast(p) ==
    /\ pc[p] = "openfast"
    /\ pc' = [pc EXCEPT ![p] = "done"]
    /\ ret' = [ret EXCEPT ![p] = FileRet(fs[EscapePath(arg[p]).esc].data)]
    /\ UNCHANGED <<now, fs, arg, list, data, inv, hit,
                   started, wtime, snap, prev, calls>>
    /\ robs' = IF observing THEN [robs EXCEPT ![p] = Observe(p)] ELSE robs
    /\ UNCHANGED <<observing, itime, meta>>
    /\ UNCHANGED filterVars
    /\ UNCHANGED loggerVars
    /\ UNCHANGED dlVars
    /\ UNCHANGED frontVars

\* GoJSON as it would be if a failed toolchain run were tried a second time.
GoJSONRetry(p, outcome, rpath, versions) ==
    /\ pc[p] = "gojson"
    /\ IF outcome = "ok"
       THEN /\ inv' = [inv EXCEPT ![p] = @ + 1]
            /\ list' = [list EXCEPT
                          ![p] = [Path |-> rpath, Versions |-> versions]]
            /\ pc' = [pc EXCEPT ![p] = "verify"]
            /\ ret' = ret
       ELSE /\ inv' = [inv EXCEPT ![p] = @ + 2]
            /\ rpath = arg[p]
            /\ versions = <<>>
            /\ list' = list
            /\ pc' = [pc EXCEPT ![p] = "done"]
            /\ ret' = [ret EXCEPT ![p] = ErrRet(outcome)]
    /\ UNCHANGED <<now, fs, arg, data, hit,
                   started, wtime, snap, prev, calls>>
    /\ itime' = IF observing THEN [itime EXCEPT ![p] = now] ELSE itime
    /\ UNCHANGED <<observing, meta, robs>>
    /\ UNCHANGED filterVars
    /\ UNCHANGED loggerVars
    /\ UNCHANGED dlVars
    /\ UNCHANGED frontVars

\* goJSON(&list, "go", "list", "-m", "-json", "-versions", mpath+"@latest"):
\* cmd.Run() fails, or json.Unmarshal fails, or list is filled in.  The
\* toolchain reports the module path rpath and the versions.
GoJSON(p, outcome, rpath, versions) ==
    /\ pc[p] = "gojson"
    /\ inv' = [inv EXCEPT ![p] = @ + 1]
    /\ IF outcome = "ok"
       THEN /\ list' = [list EXCEPT
                          ![p] = [Path |-> rpath, Versions |-> versions]]
            /\ pc' = [pc EXCEPT ![p] = "verify"]
            /\ ret' = ret
       ELSE /\ rpath = arg[p]
            /\ versions = <<>>
            /\ list' = list
            /\ pc' = [pc EXCEPT ![p] = "done"]
            /\ ret' = [ret EXCEPT ![p] = ErrRet(outcome)]
    /\ UNCHANGED <<now, fs, arg, data, hit,
                   started, wtime, snap, prev, calls>>
    /\ itime' = IF observing THEN [itime EXCEPT ![p] = now] ELSE itime
    /\ UNCHANGED <<observing, meta, robs>>
    /\ UNCHANGED filterVars
    /\ UNCHANGED loggerVars
    /\ UNCHANGED dlVars
    /\ UNCHANGED frontVars

\* Verify as it would be without the comparison of list.Path and mpath.
VerifyNoCheck(p) ==
    /\ pc[p] = "verify"
    /\ data' = [data EXCEPT ![p] = Serialize(list[p].Versions)]
    /\ pc' = [pc EXCEPT ![p] = "create"]
    /\ ret' = ret
    /\ UNCHANGED <<now, fs, arg, list, inv, hit,
                   started, wtime, snap, prev, calls>>
    /\ UNCHANGED <<observing, itime, meta, robs>>
    /\ UNCHANGED filterVars
    /\ UNCHANGED loggerVars
    /\ UNCHANGED dlVars
    /\ UNCHANGED frontVars

\* if list.Path != mpath { return nil, fmt.Errorf(...) }; data := ...
Verify(p) ==
    /\ pc[p] = "verify"
    /\ IF list[p].Path # arg[p]
       THEN /\ pc' = [pc EXCEPT ![p] = "done"]
            /\ ret' = [ret EXCEPT ![p] = ErrRet("mismatch")]
            /\ data' = data
       ELSE /\ data' = [data EXCEPT ![p] = Serialize(list[p].Versions)]
            /\ pc' = [pc EXCEPT ![p] = "create"]
            /\ ret' = ret
    /\ UNCHANGED <<now, fs, arg, list, inv, hit,
                   started, wtime, snap, prev, calls>>
    /\ UNCHANGED <<observing, itime, meta, robs>>
    /\ UNCHANGED filterVars
    /\ UNCHANGED loggerVars
    /\ UNCHANGED dlVars
    /\ UNCHANGED frontVars

\* os.MkdirAll(path.Dir(file), 755), then ioutil.WriteFile's
\* os.OpenFile(file, O_WRONLY|O_CREATE|O_TRUNC, 0666): the file is created or
\* truncated, or the open fails and the file is left as it was.
Create(p, ok) ==
    /\ pc[p] = "create"
    /\ IF ok
       THEN /\ fs' = [fs EXCEPT ![EscapePath(arg[p]).esc] =
                         [exists |-> TRUE, data |-> <<>>, mtime |-> now]]
            /\ pc' = [pc EXCEPT ![p] = "write"]
            /\ ret' = ret
       ELSE /\ fs' = fs
            /\ pc' = [pc EXCEPT ![p] = "done"]
            /\ ret' = [ret EXCEPT ![p] = ErrRet("io")]
    /\ UNCHANGED <<now, arg, list, data, inv, hit,
                   started, wtime, snap, prev, calls>>
    /\ meta' = [meta EXCEPT ![EscapePath(arg[p]).esc] =
                     IF ok /\ observing
                     THEN [@ EXCEPT !.partial = TRUE] ELSE @]
    /\ UNCHANGED <<observing, itime, robs>>
    /\ UNCHANGED filterVars
    /\ UNCHANGED loggerVars
    /\ UNCHANGED dlVars
    /\ UNCHANGED frontVars

\* The content of a file after b is written at its end.
WriteAppend(old, b) == old \o b

\* The content of a file after b is written at offset 0: bytes of the old
\* content beyond len(b) stay.
WriteAt0(old, b) == b \o SubSeq(old, Len(b) + 1, Len(old))

\* ioutil.WriteFile's f.Write(data) and f.Close(): the bytes are written at
\* offset 0, or the write fails and WriteFile's error is returned.
Write(p, ok) ==
    /\ pc[p] = "write"
    /\ IF ok
       THEN /\ fs' = [fs EXCEPT ![EscapePath(arg[p]).esc] =
                         [exists |-> TRUE,
                          data |-> WriteAt0(@.data, data[p]),
                          mtime |-> now]]
            /\ wtime' = [wtime EXCEPT ![p] = now]
            /\ pc' = [pc EXCEPT ![p] = "open"]
            /\ ret' = ret
       ELSE /\ fs' = fs
            /\ wtime' = wtime
            /\ pc' = [pc EXCEPT ![p] = "done"]
            /\ ret' = [ret EXCEPT ![p] = ErrRet("io")]
    /\ UNCHANGED <<now, arg, list, data, inv, hit,
                   started, snap, prev, calls>>
    /\ meta' = [meta EXCEPT ![EscapePath(arg[p]).esc] =
                     IF ok /\ observing
                     THEN [origin |-> itime[p], partial |-> FALSE]
                     ELSE @]
    /\ UNCHANGED <<observing, itime, robs>>
    /\ UNCHANGED filterVars
    /\ UNCHANGED loggerVars
    /\ UNCHANGED dlVars
    /\ UNCHANGED frontVars

\* return os.Open(file) after the write.
Open(p) ==
    /\ pc[p] = "open"
    /\ pc' = [pc EXCEPT ![p] = "done"]
    /\ ret' = [ret EXCEPT ![p] = FileRet(fs[EscapePath(arg[p]).esc].data)]
    /\ UNCHANGED <<now, fs, arg, list, data, inv, hit,
                   started, wtime, snap, prev, calls>>
    /\ robs' = IF observing THEN [robs EXCEPT ![p] = Observe(p)] ELSE robs
    /\ UNCHANGED <<observing, itime, meta>>
    /\ UNCHANGED filterVars
    /\ UNCHANGED loggerVars
    /\ UNCHANGED dlVars
    /\ UNCHANGED frontVars

\* The caller takes the result; the call is over.
Return(p) ==
    /\ pc[p] = "done"
    /\ pc' = [pc EXCEPT ![p] = "idle"]
    /\ prev' = [path |-> arg[p], ret |-> ret[p], inv |-> inv[p],
                wtime |-> wtime[p]]
    /\ arg' = [arg EXCEPT ![p] = <<>>]
    /\ list' = [list EXCEPT ![p] = NoList]
    /\ data' = [data EXCEPT ![p] = <<>>]
    /\ ret' = [ret EXCEPT ![p] = NoRet]
    /\ inv' = [inv EXCEPT ![p] = 0]
    /\ hit' = [hit EXCEPT ![p] = FALSE]
    /\ started' = [started EXCEPT ![p] = 0]
    /\ wtime' = [wtime EXCEPT ![p] = -1]
    /\ snap' = [snap EXCEPT ![p] = NoFile]
    /\ UNCHANGED <<now, fs, calls>>
    /\ itime' = [itime EXCEPT ![p] = -1]
    /\ robs' = [robs EXCEPT ![p] = NoObs]
    /\ UNCHANGED <<observing, meta>>
    /\ UNCHANGED filterVars
    /\ UNCHANGED loggerVars
    /\ UNCHANGED dlVars
    /\ UNCHANGED frontVars

-----------------------------------------------------------------------------
\* goJSON, download and the four operations built on it.

\* goJSON as it would be if the error of cmd.Run() were dropped.
goJSONIgnoreRun(runOk, jsonOk) ==
    IF ~jsonOk THEN [err |-> "json", decoded |-> TRUE]
    ELSE [err |-> "", decoded |-> TRUE]

\* goJSON, given whether cmd.Run() succeeds and whether stdout is JSON that
\* json.Unmarshal accepts: the error, and whether Unmarshal was called on dst.
goJSON(runOk, jsonOk) ==
    IF ~runOk THEN [err |-> "run", decoded |-> FALSE]
    ELSE IF ~jsonOk THEN [err |-> "json", decoded |-> TRUE]
    ELSE [err |-> "", decoded |-> TRUE]

DownloadOps == {"Latest", "Info", "GoMod", "Zip"}

\* The version specifiers of a request.
VersionSpecs ==
    { VersionNames[i] : i \in 1..MaxVersions } \cup { <<"latest">> }

\* The downloadInfo the toolchain reports for module version m: the files
\* of its download cache.
DownloadInfo(m) ==
    [Info  |-> <<m.Path, m.Version, "info">>,
     GoMod |-> <<m.Path, m.Version, "mod">>,
     Zip   |-> <<m.Path, m.Version, "zip">>]

\* The field each operation would open if all of them opened d.Info.
OpenedFieldInfo(op) == "Info"

\* The field of the downloadInfo each operation opens.
OpenedField(op) ==
    CASE op = "Latest" -> "Info"
      [] op = "Info"   -> "Info"
      [] op = "GoMod"  -> "GoMod"
      [] op = "Zip"    -> "Zip"

NoDownload ==
    [op |-> "none", m |-> [Path |-> <<>>, Version |-> <<>>],
     runOk |-> FALSE, jsonOk |-> FALSE,
     err |-> "", decoded |-> FALSE, opened |-> <<>>]

DownloadInit ==
    /\ dl = NoDownload
    /\ dlCalls = 0
    /\ dlInv = 0

\* ops.Latest(path), ops.Info(m), ops.GoMod(m), ops.Zip(m): download(m),
\* then os.Open of one field of the result, or the error.
DownloadOp(op, path, version, runOk, jsonOk) ==
    /\ calls < MaxCalls
    /\ (op = "Latest") => (version = <<"latest">>)
    /\ calls' = calls + 1
    /\ dlCalls' = dlCalls + 1
    /\ dlInv' = dlInv + 1
    /\ LET m == [Path |-> path, Version |-> version]
           r == goJSON(runOk, jsonOk)
       IN  dl' = [op |-> op, m |-> m, runOk |-> runOk, jsonOk |-> jsonOk,
                  err |-> r.err, decoded |-> r.decoded,
                  opened |-> IF r.err = ""
                             THEN DownloadInfo(m)[OpenedField(op)]
                             ELSE <<>>]
    /\ UNCHANGED <<now, fs, pc, arg, list, data, ret, inv, hit,
                   started, wtime, snap, prev>>
    /\ UNCHANGED <<observing, itime, meta, robs>>
    /\ UNCHANGED filterVars
    /\ UNCHANGED loggerVars
    /\ UNCHANGED frontVars

-----------------------------------------------------------------------------
\* The protocol front end, as far as the adapter relies on it: it asks
\* Filter before it calls an operation on a module path.

AllOps == DownloadOps \cup {"List"}

\* The front end's check with everything let through.
GateOpen(path) == TRUE

\* The front end's check of a module path.
Gate(path) == Filter(path)

NoRequest == [op |-> "none", path |-> <<>>]

FrontInit == lastRejected = NoRequest

\* The front end refuses a request on a filtered path; no operation runs.
Reject(op, path) ==
    /\ ~Gate(path)
    /\ calls < MaxCalls
    /\ calls' = calls + 1
    /\ lastRejected' = [op |-> op, path |-> path]
    /\ UNCHANGED <<now, fs, pc, arg, list, data, ret, inv, hit,
                   started, wtime, snap, prev>>
    /\ UNCHANGED <<observing, itime, meta, robs>>
    /\ UNCHANGED filterVars
    /\ UNCHANGED loggerVars
    /\ UNCHANGED dlVars

-----------------------------------------------------------------------------
\* Specifications.

\* The access filter alone: any configuration of the two lists, any call.
InitFilter ==
    /\ whiteList \in RuleLists
    /\ blackList \in RuleLists
    /\ FilterInit
    /\ LoggerInit
    /\ ListInit
    /\ DownloadInit
    /\ FrontInit

NextFilter == \E path \in ModulePaths : FilterCall(path)

SpecFilter == InitFilter /\ [][NextFilter]_vars

\* The logger alone.
InitLogger ==
    /\ whiteList = <<>>
    /\ blackList = <<>>
    /\ FilterInit
    /\ LoggerInit
    /\ ListInit
    /\ DownloadInit
    /\ FrontInit

NextLogger ==
    \/ ServeHTTP
    \/ \E code \in StatusCodes : WriteHeader(code)
    \/ LogRequest

SpecLogger == InitLogger /\ [][NextLogger]_vars

\* List calls.
Outcomes == {"ok", "run", "json"}

\* The version lists the toolchain can report: the versions published so
\* far, oldest first.
VersionLists ==
    { SubSeq(VersionNames, 1, n) : n \in 0..MaxVersions }

Init ==
    /\ whiteList = <<>>
    /\ blackList = <<>>
    /\ FilterInit
    /\ LoggerInit
    /\ ListInit
    /\ DownloadInit
    /\ FrontInit

Step(p) ==
    \/ \E mpath \in ModulePaths : Stat(p, mpath)
    \/ OpenFast(p)
    \/ \E outcome \in Outcomes, rpath \in ValidPaths, versions \in VersionLists :
          GoJSON(p, outcome, rpath, versions)
    \/ Verify(p)
    \/ \E ok \in BOOLEAN : Create(p, ok)
    \/ \E ok \in BOOLEAN : Write(p, ok)
    \/ Open(p)
    \/ Return(p)

Env == Tick

\* One caller: every call returns before the next one starts.
NextSeq ==
    \/ Step("c1")
    \/ Env

SpecSeq == Init /\ [][NextSeq]_vars

\* Concurrent callers.
Next ==
    \/ \E p \in Procs : Step(p)
    \/ Env

Spec == Init /\ [][Next]_vars

\* The steps of a call p whose module path is mpath.
StepOn(p, mpath) ==
    \/ Stat(p, mpath)
    \/ OpenFast(p)
    \/ \E outcome \in Outcomes, rpath \in ValidPaths, versions \in VersionLists :
          GoJSON(p, outcome, rpath, versions)
    \/ Verify(p)
    \/ \E ok \in BOOLEAN : Create(p, ok)
    \/ \E ok \in BOOLEAN : Write(p, ok)
    \/ Open(p)
    \/ Return(p)

\* Concurrent callers racing on one module path.
NextRace ==
    \/ \E p \in Procs : StepOn(p, <<"A">>)
    \/ Env

SpecRace == Init /\ [][NextRace]_vars

\* The same race, with the history of the cache files recorded.
InitObs ==
    /\ whiteList = <<>>
    /\ blackList = <<>>
    /\ FilterInit
    /\ LoggerInit
    /\ ListInitObs
    /\ DownloadInit
    /\ FrontInit

SpecRaceObs == InitObs /\ [][NextRace]_vars

\* Concurrent callers on two different module paths; the clock moves by
\* whole expiry periods.
NextIndep ==
    \/ StepOn("c1", <<"a">>)
    \/ StepOn("c2", <<"A">>)
    \/ Expire

SpecIndep == Init /\ [][NextIndep]_vars

\* The four download operations alone.
NextDownload ==
    \E op \in DownloadOps, path \in ModulePaths, version \in VersionSpecs,
       runOk \in BOOLEAN, jsonOk \in BOOLEAN :
      DownloadOp(op, path, version, runOk, jsonOk)

SpecDownload == Init /\ [][NextDownload]_vars

\* The rule lists the front end is run with.
GateConfigs ==
    { [w |-> <<>>, b |-> <<>>],
      [w |-> <<>>, b |-> << {<<"a">>} >>],
      [w |-> << {<<"a">>} >>, b |-> <<>>],
      [w |-> << {<<"a">>}, {<<"A">>} >>, b |-> << {<<"A">>} >>] }

InitGate ==
    /\ \E c \in GateConfigs : whiteList = c.w /\ blackList = c.b
    /\ FilterInit
    /\ LoggerInit
    /\ ListInit
    /\ DownloadInit
    /\ FrontInit

\* The front end serving requests: a request on a path is refused, or the
\* operation is called.
NextGate ==
    \/ \E mpath \in ModulePaths : Gate(mpath) /\ Stat("c1", mpath)
    \/ OpenFast("c1")
    \/ \E outcome \in Outcomes, rpath \in ValidPaths, versions \in VersionLists :
          GoJSON("c1", outcome, rpath, versions)
    \/ Verify("c1")
    \/ \E ok \in BOOLEAN : Create("c1", ok)
    \/ \E ok \in BOOLEAN : Write("c1", ok)
    \/ Open("c1")
    \/ Return("c1")
    \/ \E op \in DownloadOps, path \in ModulePaths, runOk \in BOOLEAN :
          Gate(path) /\ DownloadOp(op, path, <<"latest">>, runOk, TRUE)
    \/ \E op \in AllOps, path \in ModulePaths : Reject(op, path)

SpecGate == InitGate /\ [][NextGate]_vars

-----------------------------------------------------------------------------
\* Properties of ops.Filter, under SpecFilter.

\* C1: a module path that matches a deny rule is rejected, whatever the
\* allow list is (an empty one included).
DenyAlwaysRejects ==
    (fcalled /\ isBlacklisted(fpath)) => (fres = FALSE)

\* C2: with an empty allow list, Filter is false exactly when the path
\* matches a deny rule.
EmptyAllowDependsOnDeny ==
    (fcalled /\ Len(whiteList) = 0) => (fres = ~isBlacklisted(fpath))

\* C3: with a non-empty allow list a path that matches no allow rule is
\* rejected; a path that matches no deny rule and is allowed (the allow list
\* is empty or matches it) is accepted.
AllowListDecides ==
    fcalled =>
      /\ (Len(whiteList) > 0 /\ ~isWhitelisted(fpath)) => (fres = FALSE)
      /\ (~isBlacklisted(fpath)
            /\ (Len(whiteList) = 0 \/ isWhitelisted(fpath))) => (fres = TRUE)

AllowListDecidesWitness ==
    /\ fcalled
    /\ Len(whiteList) > 0
    /\ Len(blackList) > 0
    /\ ~isWhitelisted(fpath)
    /\ ~isBlacklisted(fpath)
    /\ fres = FALSE

\* C4: with no allow rule and no deny rule, every path is accepted.
NoRulesAccepts ==
    (fcalled /\ Len(whiteList) = 0 /\ Len(blackList) = 0) => (fres = TRUE)

NoRulesAcceptsWitness ==
    /\ fcalled
    /\ Len(whiteList) = 0
    /\ Len(blackList) = 0
    /\ fres = TRUE

-----------------------------------------------------------------------------
\* Properties of the logger, under SpecLogger.

\* C8: when the inner handler wrote more than one status code, the code
\* logged for the request is the first one written.
FirstWriteLogged ==
    (Len(logLines) > 0 /\ Len(lastWrites) > 1)
        => (logLines[Len(logLines)] = lastWrites[1])

\* C9: when the inner handler wrote no status code, the logged code is 200.
DefaultStatusLogged ==
    (Len(logLines) > 0 /\ Len(lastWrites) = 0)
        => (logLines[Len(logLines)] = 200)

DefaultStatusLoggedWitness ==
    /\ lpc = "idle"
    /\ Len(logLines) > 1
    /\ Len(lastWrites) = 0
    /\ logLines[Len(logLines)] = 200
    /\ logLines[1] = 404

-----------------------------------------------------------------------------
\* Properties of ops.List with one caller, under SpecSeq.

File(p) == fs[EscapePath(arg[p]).esc]

\* Each version followed by a newline; nothing for no version.
RECURSIVE Lines(_)
Lines(versions) ==
    IF Len(versions) = 0 THEN <<>>
    ELSE Head(versions) \o <<"\n">> \o Lines(Tail(versions))

\* The call before p's wrote the cache file of the same module path and
\* returned it.
PrevWrote(p) ==
    /\ prev.path = arg[p]
    /\ prev.ret.kind = "file"
    /\ prev.wtime >= 0

\* C5: a call whose Stat finds the cache file with an age below listExpire
\* makes no toolchain invocation; a call that starts less than listExpire
\* after the call before it wrote the cache file makes, together with that
\* call, at most one toolchain invocation and returns the same bytes.
ListIdempotent ==
    \A p \in Procs :
      /\ (pc[p] # "idle" /\ snap[p].exists
            /\ started[p] - snap[p].mtime < listExpire) => (inv[p] = 0)
      /\ (pc[p] = "done" /\ PrevWrote(p)
            /\ started[p] - prev.wtime < listExpire)
           => /\ inv[p] + prev.inv <= 1
              /\ ret[p].kind = "file"
              /\ ret[p].data = prev.ret.data

ListIdempotentWitness ==
    /\ pc["c1"] = "done"
    /\ PrevWrote("c1")
    /\ started["c1"] - prev.wtime < listExpire
    /\ started["c1"] > prev.wtime
    /\ prev.inv = 1
    /\ ret["c1"].kind = "file"
    /\ Len(ret["c1"].data) > 0

\* C6: a call whose Stat finds the cache file with an age of listExpire or
\* more makes exactly one toolchain invocation, and when it returns the file
\* the cache file holds the list that invocation resolved, written by this
\* call.
ListFreshness ==
    \A p \in Procs :
      (pc[p] = "done" /\ snap[p].exists
         /\ started[p] - snap[p].mtime >= listExpire)
        => /\ inv[p] = 1
           /\ (ret[p].kind = "file")
                => /\ File(p).data = Lines(list[p].Versions)
                   /\ ret[p].data = Lines(list[p].Versions)
                   /\ wtime[p] >= started[p]
                   /\ File(p).mtime = wtime[p]

ListFreshnessWitness ==
    /\ pc["c1"] = "done"
    /\ PrevWrote("c1")
    /\ snap["c1"].exists
    /\ snap["c1"].mtime = prev.wtime
    /\ started["c1"] - prev.wtime >= listExpire
    /\ inv["c1"] = 1
    /\ ret["c1"].kind = "file"
    /\ ret["c1"].data # prev.ret.data
    /\ File("c1").data = ret["c1"].data

\* The toolchain run of call p succeeded and reported another module path.
Mismatch(p) ==
    /\ list[p] # NoList
    /\ list[p].Path # arg[p]

\* C7: when the toolchain succeeds but reports a module path other than the
\* one asked for, List returns an error and the cache file of the asked path
\* stays as it was: not created, not modified.
MismatchWritesNothing ==
    \A p \in Procs :
      Mismatch(p)
        => /\ pc[p] \in {"verify", "done"}
           /\ File(p) = snap[p]
           /\ wtime[p] = -1
           /\ (pc[p] = "done") => (ret[p] = ErrRet("mismatch"))

MismatchWritesNothingWitness ==
    /\ pc["c1"] = "done"
    /\ Mismatch("c1")
    /\ inv["c1"] = 1
    /\ ret["c1"].kind = "err"
    /\ ~File("c1").exists

\* C10: on a successful miss the bytes written and returned are the
\* versions in the toolchain's order, each followed by a newline, and no
\* byte at all for the empty list.
ListSerialization ==
    \A p \in Procs :
      (pc[p] = "done" /\ ret[p].kind = "file" /\ inv[p] = 1)
        => /\ ret[p].data = Lines(list[p].Versions)
           /\ File(p).data = Lines(list[p].Versions)
           /\ (list[p].Versions = <<>>) => (ret[p].data = <<>>)
           /\ (list[p].Versions = << <<"v", "1">>, <<"v", "2">> >>)
                => (ret[p].data = <<"v", "1", "\n", "v", "2", "\n">>)

ListSerializationWitness ==
    /\ pc["c1"] = "done"
    /\ ret["c1"].kind = "file"
    /\ inv["c1"] = 1
    /\ list["c1"].Versions = << <<"v", "1">>, <<"v", "2">> >>
    /\ File("c1").data = <<"v", "1", "\n", "v", "2", "\n">>

-----------------------------------------------------------------------------
\* More properties of ops.List with one caller, under SpecSeq.

\* Call p has returned the error of a failed toolchain invocation.
ToolchainFailed(p) ==
    /\ pc[p] = "done"
    /\ ret[p].kind = "err"
    /\ ret[p].err \in {"run", "json"}

\* C14: when the toolchain invocation of a miss fails, List returns the
\* error and no file, has made exactly one invocation, and leaves the cache
\* file as it was; the next call on the same path takes the miss path too.
ListFailure ==
    \A p \in Procs :
      /\ ToolchainFailed(p)
           => /\ inv[p] = 1
              /\ ret[p].data = <<>>
              /\ wtime[p] = -1
              /\ File(p) = snap[p]
      /\ (pc[p] # "idle" /\ prev.path = arg[p] /\ prev.ret.kind = "err"
            /\ prev.ret.err \in {"run", "json"})
           => /\ prev.inv = 1
              /\ ~hit[p]
              /\ pc[p] # "openfast"
              /\ (pc[p] = "done") => (inv[p] = 1)

ListFailureWitness ==
    /\ ToolchainFailed("c1")
    /\ prev.path = arg["c1"]
    /\ prev.ret.kind = "err"
    /\ prev.ret.err = "json"
    /\ ret["c1"].err = "run"
    /\ inv["c1"] = 1
    /\ ~File("c1").exists

-----------------------------------------------------------------------------
\* Properties of concurrent List calls.

\* C17: the cache file of a module path changes only in a step of a List
\* call on that very path; calls on another path leave its existence,
\* content and modification time alone.  Under SpecIndep.
ListIndependence ==
    [][\A q \in ValidPaths :
         (fs'[EscapePath(q).esc] # fs[EscapePath(q).esc])
           => \E p \in Procs : /\ arg[p] = q
                               /\ pc[p] \in {"create", "write"}
                               /\ pc'[p] # pc[p]]_vars

ListIndependenceWitness ==
    /\ fs[EscapePath(<<"a">>).esc].exists
    /\ fs[EscapePath(<<"A">>).esc].exists
    /\ Len(fs[EscapePath(<<"a">>).esc].data) > 0
    /\ fs[EscapePath(<<"A">>).esc].data # fs[EscapePath(<<"a">>).esc].data
    /\ fs[EscapePath(<<"A">>).esc].mtime # fs[EscapePath(<<"a">>).esc].mtime
    /\ pc["c2"] = "done"
    /\ ret["c2"].kind = "file"
    /\ pc["c1"] = "idle"
    /\ prev.path = <<"a">>

\* Call p took the miss path and returned the file it wrote.
MissReturned(p) ==
    /\ pc[p] = "done"
    /\ ret[p].kind = "file"
    /\ inv[p] = 1

NoPartialRead ==
    \A p \in Procs :
      (pc[p] = "done" /\ ret[p].kind = "file")
        => ~(robs[p].partial /\ robs[p].busy)

\* C19 as stated: content returned from a completely written cache file is
\* the result of a toolchain invocation that completed less than listExpire
\* before the returning call started.  Under SpecRaceObs.
BoundedStaleness ==
    \A p \in Procs :
      (pc[p] = "done" /\ ret[p].kind = "file" /\ ~robs[p].partial)
        => (started[p] - robs[p].origin < listExpire)

-----------------------------------------------------------------------------
\* Properties of the logger, under SpecLogger.

\* C16: the logger calls the inner handler once per request, forwards every
\* status code written to the underlying writer, same code and same order,
\* and has logged one line per request once the inner handler has returned,
\* none before.
LoggerPassThrough ==
    /\ hcalls = reqs
    /\ (lpc = "serving") => (wcodes = hwrites /\ Len(logLines) = reqs - 1)
    /\ (lpc = "idle") => (Len(logLines) = reqs)
    /\ (lpc = "idle" /\ reqs > 0) => (wcodes = lastWrites)

LoggerPassThroughWitness ==
    /\ lpc = "idle"
    /\ reqs = 2
    /\ hcalls = 2
    /\ Len(logLines) = 2
    /\ Len(lastWrites) = 2
    /\ wcodes = lastWrites
    /\ lastWrites[1] # lastWrites[2]

-----------------------------------------------------------------------------
\* Properties of the download operations, under SpecDownload.

\* The file of the download result that the claim names for each operation.
ExpectedFile(op, m) ==
    IF op = "GoMod" THEN <<m.Path, m.Version, "mod">>
    ELSE IF op = "Zip" THEN <<m.Path, m.Version, "zip">>
    ELSE <<m.Path, m.Version, "info">>

\* C15: Latest, Info, GoMod and Zip make one download invocation per call
\* and leave the version-list cache alone; on success they open the Info,
\* Info, GoMod and Zip file of the result, Latest for version "latest"; on
\* failure they return the error and open nothing.
DownloadOnce ==
    /\ dlInv = dlCalls
    /\ fs = [f \in CacheFiles |-> NoFile]
    /\ (dl.op # "none")
         => /\ (dl.err = "") => (dl.opened = ExpectedFile(dl.op, dl.m))
            /\ (dl.err # "") => (dl.opened = <<>>)
            /\ (dl.op = "Latest") => (dl.m.Version = <<"latest">>)

DownloadOnceWitness ==
    /\ dl.op = "GoMod"
    /\ dl.err = ""
    /\ dl.opened = <<dl.m.Path, dl.m.Version, "mod">>
    /\ dlCalls = 2
    /\ dlInv = 2

\* C18: a toolchain run that fails gives an error and no decoding; a run
\* that succeeds gives success exactly when its output decodes, and a decode
\* error otherwise; no success after a failed run.
GoJSONOutcome ==
    (dl.op # "none")
      => /\ (~dl.runOk) => (dl.err = "run" /\ ~dl.decoded)
         /\ dl.runOk => /\ dl.decoded
                        /\ (dl.err = "") <=> dl.jsonOk
                        /\ (~dl.jsonOk) => (dl.err = "json")
         /\ (dl.err = "") => dl.runOk

GoJSONOutcomeWitness ==
    /\ dl.op = "Zip"
    /\ ~dl.runOk
    /\ dl.jsonOk
    /\ dl.err = "run"
    /\ dl.opened = <<>>

-----------------------------------------------------------------------------
\* Properties of the front end and the adapter together, under SpecGate.

\* C12: every toolchain invocation is made for a module path that Filter
\* accepts: no List call and no download operation runs on a path for
\* which Filter is false, and a refused request is on such a path.
GateBeforeResolve ==
    /\ \A p \in Procs : (pc[p] # "idle") => Filter(arg[p])
    /\ \A p \in Procs : (inv[p] > 0) => Filter(arg[p])
    /\ (dl.op # "none") => Filter(dl.m.Path)
    /\ (lastRejected.op # "none") => ~Filter(lastRejected.path)

GateBeforeResolveWitness ==
    /\ lastRejected.op = "List"
    /\ lastRejected.path = <<"A">>
    /\ ~Filter(<<"A">>)
    /\ isBlacklisted(<<"A">>)
    /\ pc["c1"] = "done"
    /\ arg["c1"] = <<"a">>
    /\ inv["c1"] = 1
    /\ dlInv = 0

====
